---- MODULE Spec2Model ----
(***************************************************************************)
(* Model of the transaction service of src/src/index.ts (lines 1-226, the  *)
(* current version of the worker): the API-key middleware, the four        *)
(* /transaction/* handlers, the Redis cache they share and the transaction *)
(* table of the schema with title and deletedAt.  The earlier versions of  *)
(* the worker (index.ts from line 227, the one with /transaction/delete)   *)
(* and of the schema are superseded and not modelled.                      *)
(*                                                                         *)
(* Spec      requests handled one after another, every call succeeding     *)
(* SpecFault the same, and a Redis call of a handler may reject            *)
(* SpecConc  handlers interleaved at their awaits                          *)
(*                                                                         *)
(* Time is counted in seconds since 2024-01-01T00:00:00Z.  Amounts are     *)
(* counted in cents: the numeric(10,2) column stores them exactly.         *)
(* Columns no handler reads or filters on (remark, updatedAt) are left out.*)
(***************************************************************************)
EXTENDS Integers, Sequences, FiniteSets, TLC

VARIABLES
  table,      \* the transactions table: sequence of rows, row i has id i
  cache,      \* the Redis keyspace: function from the present keys to entries
  clock,      \* the current instant (seconds)
  dbVersion,  \* history: number of statements that have written the table
  last,       \* history: the last request handled one-at-a-time and its response
  acked,      \* history: ids whose soft-delete was answered {ok:true}
  procs,      \* interleaved handlers: per process, position and locals
  doneVer     \* history: dbVersion reached by the latest write request answered {ok:true}

vars == <<table, cache, clock, dbVersion, last, acked, procs, doneVer>>

----------------------------------------------------------------------------
\* Bounds of the model
MaxWrites == 2      \* statements writing the table
MaxTicks == 2       \* advances of the clock
NumProcs == 2       \* concurrently running handlers

----------------------------------------------------------------------------
\* Program constants
EightHours == 8 * 60 * 60
DaySeconds == 24 * 60 * 60
EndOfDay == 23 * 3600 + 59 * 60 + 59
CacheTtl == 3600
Null == -1
NoExpiry == Null

ApiKey == "secret"

\* JSON values of a request body
JNum(n) == [t |-> "number", n |-> n, s |-> ""]
JStr(s) == [t |-> "string", n |-> 0, s |-> s]
JBool(b) == [t |-> "boolean", n |-> IF b THEN 1 ELSE 0, s |-> ""]
JUndef == [t |-> "undefined", n |-> 0, s |-> ""]

\* z.number().nonnegative(), z.number().positive(), z.string()
Nonnegative(j) == j.t = "number" /\ j.n >= 0
Positive(j) == j.t = "number" /\ j.n > 0
IsString(j) == j.t = "string"

\* JavaScript truthiness, as used by if (body.is_delete)
Truthy(j) ==
  CASE j.t = "boolean" -> j.n = 1
    [] j.t = "number" -> j.n # 0
    [] j.t = "string" -> j.s # ""
    [] OTHER -> FALSE

\* Calendar dates the model knows, in order; day 0 is 2024-01-01
Dates == <<"2024-01-01", "2024-01-02", "2024-01-03">>
DayIndex(s) == (CHOOSE i \in DOMAIN Dates : Dates[i] = s) - 1

\* z.string().date(): a strict YYYY-MM-DD string
IsDate(s) == \E i \in DOMAIN Dates : Dates[i] = s

\* new Date(start_at + " 00:00:00" + "Z"), new Date(end_at + " 23:59:59" + "Z")
UtcStartAt(start_at) == DayIndex(start_at) * DaySeconds
UtcEndAt(end_at) == DayIndex(end_at) * DaySeconds + EndOfDay

\* toLocalTime: shift by eight hours, print as "YYYY-MM-DD HH:mm:ss"
toLocalTime(t) ==
  LET l == t + EightHours
      sod == l % DaySeconds
  IN [date |-> Dates[(l \div DaySeconds) + 1],
      hh |-> sod \div 3600, mm |-> (sod % 3600) \div 60, ss |-> sod % 60]

----------------------------------------------------------------------------
\* The table

Range(f) == {f[x] : x \in DOMAIN f}

RECURSIVE InsertSorted(_, _)
InsertSorted(r, s) ==
  IF s = <<>> THEN <<r>>
  ELSE IF r.createdAt < s[1].createdAt \/ (r.createdAt = s[1].createdAt /\ r.id < s[1].id)
       THEN <<r>> \o s
       ELSE <<s[1]>> \o InsertSorted(r, Tail(s))

\* orderBy(asc(createdAt)); rows inserted later carry later timestamps, so
\* equal model instants are ordered by id
RECURSIVE OrderByCreatedAt(_)
OrderByCreatedAt(s) ==
  IF s = <<>> THEN <<>> ELSE InsertSorted(s[1], OrderByCreatedAt(Tail(s)))

\* mutant of InWindow: the filter on deletedAt is missing
InWindowWithDeleted(r, start_at, end_at) ==
  /\ UtcStartAt(start_at) <= r.createdAt
  /\ r.createdAt <= UtcEndAt(end_at)

\* where(and(between(createdAt, utcStartAt, utcEndAt), isNull(deletedAt)))
InWindow(r, start_at, end_at) ==
  /\ UtcStartAt(start_at) <= r.createdAt
  /\ r.createdAt <= UtcEndAt(end_at)
  /\ r.deletedAt = Null

Selected(tbl, start_at, end_at) ==
  SelectSeq(tbl, LAMBDA r : InWindow(r, start_at, end_at))

\* GET /transaction/list: the query and the projection with the local date
ListQuery(tbl, start_at, end_at) ==
  LET rows == OrderByCreatedAt(Selected(tbl, start_at, end_at))
  IN [i \in 1..Len(rows) |->
        [id |-> rows[i].id, title |-> rows[i].title, amount |-> rows[i].amount,
         type |-> rows[i].type, date |-> toLocalTime(rows[i].createdAt)]]

RECURSIVE SumAmount(_)
SumAmount(s) == IF s = <<>> THEN 0 ELSE s[1].amount + SumAmount(Tail(s))

RECURSIVE SeqOfTypes(_)
SeqOfTypes(S) ==
  IF S = {} THEN <<>>
  ELSE LET m == CHOOSE x \in S : \A y \in S : x <= y
       IN <<m>> \o SeqOfTypes(S \ {m})

\* GET /transaction/overview: groupBy(type) with sum(amount) and count(amount);
\* the groups are listed by type
OverviewQuery(tbl, start_at, end_at) ==
  LET rows == Selected(tbl, start_at, end_at)
      types == SeqOfTypes({rows[i].type : i \in DOMAIN rows})
  IN [i \in 1..Len(types) |->
        LET g == SelectSeq(rows, LAMBDA r : r.type = types[i])
        IN [type |-> types[i], sum |-> SumAmount(g), count |-> Len(g)]]

\* history: the ids of the rows a list or overview query has read
RowsRead(tbl, start_at, end_at) ==
  {r.id : r \in Range(Selected(tbl, start_at, end_at))}

\* db.insert(transactionTable).values({...}): id from the serial, createdAt now
InsertRow(tbl, body, now) ==
  Append(tbl, [id |-> Len(tbl) + 1, amount |-> body.amount.n, title |-> body.title.s,
               type |-> body.type.n, kind |-> body.kind.n, currency |-> body.currency.n,
               createdAt |-> now, deletedAt |-> Null])

\* db.update(...).set({deletedAt: new Date()}).where(eq(id, ...))
SoftDelete(tbl, id, now) ==
  [i \in DOMAIN tbl |-> IF tbl[i].id = id THEN [tbl[i] EXCEPT !.deletedAt = now] ELSE tbl[i]]

\* db.update(...).set({amount: ...}).where(eq(id, ...))
SetAmount(tbl, id, amount) ==
  [i \in DOMAIN tbl |-> IF tbl[i].id = id THEN [tbl[i] EXCEPT !.amount = amount] ELSE tbl[i]]

----------------------------------------------------------------------------
\* The cache

CacheKey(kind, start_at, end_at) ==
  [ns |-> "transaction", kind |-> kind, start_at |-> start_at, end_at |-> end_at]

\* a key of another application sharing the Redis database
OtherKey == [ns |-> "session", kind |-> "token", start_at |-> "", end_at |-> ""]

\* redis.keys('transaction:*')
TransactionKeys(c) == {k \in DOMAIN c : k.ns = "transaction"}

\* redis.del(...keys)
Del(c, keys) == [k \in DOMAIN c \ keys |-> c[k]]

\* mutant of clearCache: only the list entries are deleted
clearCacheListOnly(c) ==
  LET keys == {k \in TransactionKeys(c) : k.kind = "list"}
  IN IF keys # {} THEN Del(c, keys) ELSE c

\* clearCache: keys, then del when there is a key
clearCache(c) ==
  LET keys == TransactionKeys(c)
  IN IF keys # {} THEN Del(c, keys) ELSE c

\* mutant of CacheSet: the entry expires after half an hour
CacheSetShortTtl(c, key, val, rows, ver, now) ==
  [k \in DOMAIN c \cup {key} |->
     IF k = key THEN [val |-> val, rows |-> rows, ver |-> ver, exp |-> now + 30 * 60]
     ELSE c[k]]

\* mutant of CacheSet: an empty result is not cached
CacheSetNonEmpty(c, key, val, rows, ver, now) ==
  IF val = <<>> THEN c
  ELSE [k \in DOMAIN c \cup {key} |->
          IF k = key THEN [val |-> val, rows |-> rows, ver |-> ver, exp |-> now + CacheTtl]
          ELSE c[k]]

\* redis.set(key, JSON.stringify(val), {ex: 3600})
CacheSet(c, key, val, rows, ver, now) ==
  [k \in DOMAIN c \cup {key} |->
     IF k = key THEN [val |-> val, rows |-> rows, ver |-> ver, exp |-> now + CacheTtl]
     ELSE c[k]]

\* Redis drops a key once its expiry instant is reached
Expire(c, now) ==
  [k \in {k \in DOMAIN c : c[k].exp = NoExpiry \/ now < c[k].exp} |-> c[k]]

----------------------------------------------------------------------------
\* Requests and responses

NoJson == JUndef

AddReq(key, amount, title, type, kind, currency) ==
  [op |-> "add", key |-> key, amount |-> amount, title |-> title, type |-> type,
   kind |-> kind, currency |-> currency, id |-> NoJson, is_delete |-> NoJson,
   start_at |-> "", end_at |-> ""]

UpdateReq(key, id, is_delete, amount) ==
  [op |-> "update", key |-> key, amount |-> amount, title |-> NoJson, type |-> NoJson,
   kind |-> NoJson, currency |-> NoJson, id |-> id, is_delete |-> is_delete,
   start_at |-> "", end_at |-> ""]

ReadReq(op, key, start_at, end_at) ==
  [op |-> op, key |-> key, amount |-> NoJson, title |-> NoJson, type |-> NoJson,
   kind |-> NoJson, currency |-> NoJson, id |-> NoJson, is_delete |-> NoJson,
   start_at |-> start_at, end_at |-> end_at]

NoReq == ReadReq("none", "", "", "")

\* c.json({ok: true}), c.json({ok: true, data}), c.json({error}, 400),
\* c.json({error: "Unauthorized"}, 401)
\* history fields: rows (ids of the rows the data was computed from), hit, dbRead
\* (the handler ran its select), dropped (cache keys the handler deleted)
Ok(dropped) ==
  [status |-> 200, data |-> <<>>, rows |-> {}, hit |-> FALSE, dbRead |-> FALSE, dropped |-> dropped]
OkData(data, rows, hit) ==
  [status |-> 200, data |-> data, rows |-> rows, hit |-> hit, dbRead |-> ~hit, dropped |-> 0]
Error(dbRead) ==
  [status |-> 400, data |-> <<>>, rows |-> {}, hit |-> FALSE, dbRead |-> dbRead, dropped |-> 0]
Unauthorized ==
  [status |-> 401, data |-> <<>>, rows |-> {}, hit |-> FALSE, dbRead |-> FALSE, dropped |-> 0]

\* Inputs of the model
BadHeaderKeys == {"guess", ""}      \* "" stands for a missing header

ValidAddBodies ==
  { <<JNum(1250), JStr("coffee"), JNum(1), JNum(2), JNum(0)>>,
    <<JNum(300), JStr("tea"), JNum(2), JNum(2), JNum(0)>> }

InvalidAddBodies ==
  { <<JNum(-100), JStr("coffee"), JNum(1), JNum(2), JNum(0)>>,
    <<JNum(1250), JUndef, JNum(1), JNum(2), JNum(0)>>,
    <<JNum(1250), JStr("coffee"), JNum(-1), JNum(2), JNum(0)>>,
    <<JNum(1250), JStr("coffee"), JNum(1), JStr("2"), JNum(0)>>,
    <<JNum(1250), JStr("coffee"), JNum(1), JNum(2), JNum(-1)>> }

AddBodies == ValidAddBodies \cup InvalidAddBodies

AddRequests ==
  { AddReq(ApiKey, b[1], b[2], b[3], b[4], b[5]) : b \in AddBodies }
  \cup { AddReq(k, JNum(1250), JStr("coffee"), JNum(1), JNum(2), JNum(0)) : k \in BadHeaderKeys }

\* id 1 is the first row, id 9 is never assigned
UpdateBodies ==
  { <<JNum(1), JBool(TRUE), JUndef>>, <<JNum(1), JBool(TRUE), JNum(-5)>>,
    <<JNum(1), JUndef, JNum(700)>>, <<JNum(1), JBool(FALSE), JNum(0)>>,
    <<JNum(1), JUndef, JNum(-5)>>, <<JNum(9), JBool(TRUE), JUndef>>,
    <<JNum(-1), JBool(TRUE), JUndef>>, <<JUndef, JUndef, JNum(700)>> }

UpdateRequests ==
  { UpdateReq(ApiKey, b[1], b[2], b[3]) : b \in UpdateBodies }
  \cup { UpdateReq(k, JNum(1), JBool(TRUE), JUndef) : k \in BadHeaderKeys }

QueryRanges ==
  { <<"2024-01-02", "2024-01-02">>, <<"2024-1-2", "2024-01-02">>, <<"2024-01-02", "">> }

ReadRequests(op) ==
  { ReadReq(op, ApiKey, q[1], q[2]) : q \in QueryRanges }
  \cup { ReadReq(op, k, "2024-01-02", "2024-01-02") : k \in BadHeaderKeys }

ReadOps == {"list", "overview"}

\* mutant of ValidAdd: currency is not validated
ValidAddNoCurrency(req) ==
  /\ Nonnegative(req.amount)
  /\ IsString(req.title)
  /\ Nonnegative(req.type)
  /\ Nonnegative(req.kind)

\* the validations of POST /transaction/add, in the order of the code
ValidAdd(req) ==
  /\ Nonnegative(req.amount)
  /\ IsString(req.title)
  /\ Nonnegative(req.type)
  /\ Nonnegative(req.kind)
  /\ Nonnegative(req.currency)

\* mutant of ValidUpdate: the amount is validated as on add (zero passes)
ValidUpdateNonnegative(req) ==
  IF Truthy(req.is_delete) THEN Nonnegative(req.id)
  ELSE Nonnegative(req.amount) /\ Nonnegative(req.id)

\* the validations of POST /transaction/update on the branch the body selects
ValidUpdate(req) ==
  IF Truthy(req.is_delete) THEN Nonnegative(req.id)
  ELSE Positive(req.amount) /\ Nonnegative(req.id)

\* the table after the statement of POST /transaction/update
UpdateRows(tbl, req, now) ==
  IF Truthy(req.is_delete) THEN SoftDelete(tbl, req.id.n, now)
  ELSE SetAmount(tbl, req.id.n, req.amount.n)

\* the query of the read handler op
Query(op, tbl, start_at, end_at) ==
  IF op = "list" THEN ListQuery(tbl, start_at, end_at)
  ELSE OverviewQuery(tbl, start_at, end_at)

IsWrite(req) == req.op \in {"add", "update"}
IsRead(req) == req.op \in ReadOps

\* mutant of Authorized: any key that is present passes
AuthorizedAnyKey(req) == req.key # ""

\* app.use("/transaction/*"): the X-API-KEY check
Authorized(req) == req.key = ApiKey

----------------------------------------------------------------------------
\* Requests handled one after another

Respond(req, res) == last' = [req |-> req, res |-> res, at |-> clock]

\* the cache and the response after clearCache, whose call `fail` rejects
Flush(req, fail) ==
  /\ fail \in {"none", "keys", "del"}
  /\ fail = "del" => TransactionKeys(cache) # {}
  /\ IF fail = "none"
     THEN cache' = clearCache(cache) /\ Respond(req, Ok(Cardinality(TransactionKeys(cache))))
     ELSE cache' = cache /\ Respond(req, Error(FALSE))

HandleAdd(req, fail) ==
  IF ~Authorized(req)
  THEN Respond(req, Unauthorized) /\ UNCHANGED <<table, cache, dbVersion, acked>>
  ELSE IF ~ValidAdd(req)
  THEN Respond(req, Error(FALSE)) /\ UNCHANGED <<table, cache, dbVersion, acked>>
  ELSE /\ dbVersion < MaxWrites
       /\ table' = InsertRow(table, req, clock)
       /\ dbVersion' = dbVersion + 1
       /\ Flush(req, fail)
       /\ UNCHANGED acked

HandleUpdate(req, fail) ==
  IF ~Authorized(req)
  THEN Respond(req, Unauthorized) /\ UNCHANGED <<table, cache, dbVersion, acked>>
  ELSE IF ~ValidUpdate(req)
  THEN Respond(req, Error(FALSE)) /\ UNCHANGED <<table, cache, dbVersion, acked>>
  ELSE /\ dbVersion < MaxWrites
       /\ table' = UpdateRows(table, req, clock)
       /\ dbVersion' = dbVersion + 1
       /\ Flush(req, fail)
       /\ acked' = IF fail = "none" /\ Truthy(req.is_delete) /\ req.id.n \in DOMAIN table
                   THEN acked \cup {req.id.n} ELSE acked

HandleRead(req, fail) ==
  LET key == CacheKey(req.op, req.start_at, req.end_at)
      data == Query(req.op, table, req.start_at, req.end_at)
      rows == RowsRead(table, req.start_at, req.end_at)
  IN /\ fail \in {"none", "get", "set"}
     /\ UNCHANGED <<table, dbVersion, acked>>
     /\ IF ~Authorized(req)
        THEN Respond(req, Unauthorized) /\ cache' = cache
        ELSE IF ~IsDate(req.start_at) \/ ~IsDate(req.end_at) \/ fail = "get"
        THEN Respond(req, Error(FALSE)) /\ cache' = cache
        ELSE IF key \in DOMAIN cache   \* if (redisResult): the payload is an array, truthy also when empty
        THEN Respond(req, OkData(cache[key].val, cache[key].rows, TRUE)) /\ cache' = cache
        ELSE IF fail = "set"
        THEN Respond(req, Error(TRUE)) /\ cache' = cache
        ELSE /\ cache' = CacheSet(cache, key, data, rows, dbVersion, clock)
             /\ Respond(req, OkData(data, rows, FALSE))

Add ==
  \E req \in AddRequests :
    /\ HandleAdd(req, "none")
    /\ UNCHANGED <<clock, procs, doneVer>>

Update ==
  \E req \in UpdateRequests :
    /\ HandleUpdate(req, "none")
    /\ UNCHANGED <<clock, procs, doneVer>>

List ==
  \E req \in ReadRequests("list") :
    /\ HandleRead(req, "none")
    /\ UNCHANGED <<clock, procs, doneVer>>

Overview ==
  \E req \in ReadRequests("overview") :
    /\ HandleRead(req, "none")
    /\ UNCHANGED <<clock, procs, doneVer>>

\* the same requests with one Redis call rejecting
AddFault ==
  \E req \in AddRequests, fail \in {"keys", "del"} :
    /\ HandleAdd(req, fail)
    /\ UNCHANGED <<clock, procs, doneVer>>

UpdateFault ==
  \E req \in UpdateRequests, fail \in {"keys", "del"} :
    /\ HandleUpdate(req, fail)
    /\ UNCHANGED <<clock, procs, doneVer>>

ReadFault ==
  \E op \in ReadOps : \E req \in ReadRequests(op), fail \in {"get", "set"} :
    /\ HandleRead(req, fail)
    /\ UNCHANGED <<clock, procs, doneVer>>

\* The first instant: 2024-01-01T23:30:00Z, which is 07:30 of 2024-01-02 in UTC+8;
\* the clock advances by half hours
StartInstant == 23 * 60 * 60 + 30 * 60
HalfHour == 30 * 60

\* time passes; Redis drops the keys whose expiry is reached
Tick ==
  /\ clock < StartInstant + MaxTicks * HalfHour
  /\ clock' = clock + HalfHour
  /\ cache' = Expire(cache, clock')
  /\ UNCHANGED <<table, dbVersion, last, acked, procs, doneVer>>

\* a handler that is not running; after a response it keeps the request and the
\* history of the response (hit, ver of the payload returned, seen)
Idle ==
  [pc |-> "idle", req |-> NoReq, data |-> <<>>, rows |-> {}, ver |-> 0, keys |-> {},
   seen |-> 0, hit |-> FALSE]

Init ==
  /\ table = <<>>
  /\ cache = (OtherKey :> [val |-> <<>>, rows |-> {}, ver |-> 0, exp |-> NoExpiry])
  /\ clock = StartInstant
  /\ dbVersion = 0
  /\ last = [req |-> NoReq, res |-> Ok(0), at |-> StartInstant]
  /\ acked = {}
  /\ procs = [p \in 1..NumProcs |-> Idle]
  /\ doneVer = 0

Next == Add \/ Update \/ List \/ Overview \/ Tick

Spec == Init /\ [][Next]_vars

----------------------------------------------------------------------------
\* Requests handled concurrently: every awaited call of a handler is a step

Procs == 1..NumProcs

\* the requests of the interleaved model pass the middleware and the validation
ConcRequests ==
  { AddReq(ApiKey, JNum(1250), JStr("coffee"), JNum(1), JNum(2), JNum(0)),
    UpdateReq(ApiKey, JNum(1), JBool(TRUE), JUndef),
    ReadReq("list", ApiKey, "2024-01-01", "2024-01-02"),
    ReadReq("overview", ApiKey, "2024-01-01", "2024-01-02") }

Writing == {p \in Procs : procs[p].pc \in {"insert", "update"}}

Max(a, b) == IF a >= b THEN a ELSE b

\* the handler starts: middleware, body or query parsing, up to the first await
Receive(p) ==
  /\ procs[p].pc = "idle"
  /\ \E req \in ConcRequests :
       /\ Authorized(req)
       /\ IF req.op = "add" THEN ValidAdd(req)
          ELSE IF req.op = "update" THEN ValidUpdate(req)
          ELSE IsDate(req.start_at) /\ IsDate(req.end_at)
       /\ IsWrite(req) => dbVersion + Cardinality(Writing) < MaxWrites
       /\ procs' = [procs EXCEPT ![p] =
            [Idle EXCEPT !.pc = IF req.op = "add" THEN "insert"
                               ELSE IF req.op = "update" THEN "update" ELSE "get",
                         !.req = req, !.seen = doneVer]]
  /\ UNCHANGED <<table, cache, clock, dbVersion, last, acked, doneVer>>

\* await redis.get(key): answer from the cache on a hit
GetStep(p) ==
  LET me == procs[p]
      key == CacheKey(me.req.op, me.req.start_at, me.req.end_at)
  IN /\ me.pc = "get"
     /\ procs' = [procs EXCEPT ![p] =
          IF key \in DOMAIN cache
          THEN [me EXCEPT !.pc = "idle", !.hit = TRUE, !.data = cache[key].val,
                          !.rows = cache[key].rows, !.ver = cache[key].ver]
          ELSE [me EXCEPT !.pc = "query"]]
     /\ UNCHANGED <<table, cache, clock, dbVersion, last, acked, doneVer>>

\* await db.select(...)
QueryStep(p) ==
  LET me == procs[p]
  IN /\ me.pc = "query"
     /\ procs' = [procs EXCEPT ![p] =
          [me EXCEPT !.pc = "set",
                     !.data = Query(me.req.op, table, me.req.start_at, me.req.end_at),
                     !.rows = RowsRead(table, me.req.start_at, me.req.end_at),
                     !.ver = dbVersion]]
     /\ UNCHANGED <<table, cache, clock, dbVersion, last, acked, doneVer>>

\* await redis.set(key, ..., {ex: 3600}), then the response
SetStep(p) ==
  LET me == procs[p]
      key == CacheKey(me.req.op, me.req.start_at, me.req.end_at)
  IN /\ me.pc = "set"
     /\ cache' = CacheSet(cache, key, me.data, me.rows, me.ver, clock)
     /\ procs' = [procs EXCEPT ![p] = [me EXCEPT !.pc = "idle"]]
     /\ UNCHANGED <<table, clock, dbVersion, last, acked, doneVer>>

\* await db.insert(...)
InsertStep(p) ==
  LET me == procs[p]
  IN /\ me.pc = "insert"
     /\ table' = InsertRow(table, me.req, clock)
     /\ dbVersion' = dbVersion + 1
     /\ procs' = [procs EXCEPT ![p] = [me EXCEPT !.pc = "keys", !.ver = dbVersion + 1]]
     /\ UNCHANGED <<cache, clock, last, acked, doneVer>>

\* await db.update(...)
UpdateStep(p) ==
  LET me == procs[p]
  IN /\ me.pc = "update"
     /\ table' = UpdateRows(table, me.req, clock)
     /\ dbVersion' = dbVersion + 1
     /\ procs' = [procs EXCEPT ![p] = [me EXCEPT !.pc = "keys", !.ver = dbVersion + 1]]
     /\ UNCHANGED <<cache, clock, last, acked, doneVer>>

\* clearCache: await redis.keys('transaction:*'); the response when there is none
KeysStep(p) ==
  LET me == procs[p]
      keys == TransactionKeys(cache)
  IN /\ me.pc = "keys"
     /\ procs' = [procs EXCEPT ![p] =
          [me EXCEPT !.pc = IF keys # {} THEN "del" ELSE "idle", !.keys = keys]]
     /\ doneVer' = IF keys # {} THEN doneVer ELSE Max(doneVer, me.ver)
     /\ UNCHANGED <<table, cache, clock, dbVersion, last, acked>>

\* clearCache: await redis.del(...keys), then the response
DelStep(p) ==
  LET me == procs[p]
  IN /\ me.pc = "del"
     /\ cache' = Del(cache, me.keys)
     /\ procs' = [procs EXCEPT ![p] = [me EXCEPT !.pc = "idle", !.keys = {}]]
     /\ doneVer' = Max(doneVer, me.ver)
     /\ UNCHANGED <<table, clock, dbVersion, last, acked>>

NextConc ==
  \E p \in Procs :
    \/ Receive(p)
    \/ GetStep(p)
    \/ QueryStep(p)
    \/ SetStep(p)
    \/ InsertStep(p)
    \/ UpdateStep(p)
    \/ KeysStep(p)
    \/ DelStep(p)

SpecConc == Init /\ [][NextConc]_vars

NextFault == Next \/ AddFault \/ UpdateFault \/ ReadFault

SpecFault == Init /\ [][NextFault]_vars

----------------------------------------------------------------------------
\* Properties of requests handled one after another (Spec, SpecFault)

\* a step that handles a request: the clock stands still
Handled == clock' = clock

SameQuery(r1, r2) ==
  r1.op = r2.op /\ r1.start_at = r2.start_at /\ r1.end_at = r2.end_at

\* the calendar day of instant t in UTC+8
LocalDay(t) == (t + EightHours) \div DaySeconds

Amounts(tbl) == [i \in DOMAIN tbl |-> tbl[i].amount]

\* C1: a write answered {ok:true} leaves no key of the transaction namespace in
\* the cache, and the next list or overview answered after it misses the cache
\* and returns the result of its query on the table that holds the write.
C1_WriteInvalidatesCache ==
  [][ /\ (Handled /\ IsWrite(last'.req) /\ last'.res.status = 200)
         => TransactionKeys(cache') = {}
      /\ (Handled /\ IsWrite(last.req) /\ last.res.status = 200
            /\ IsRead(last'.req) /\ last'.res.status = 200)
         => /\ ~last'.res.hit
            /\ last'.res.dbRead
            /\ last'.res.data = Query(last'.req.op, table', last'.req.start_at, last'.req.end_at)
            /\ (last.req.op = "add" /\ UtcStartAt(last'.req.start_at) <= last.at
                 /\ last.at <= UtcEndAt(last'.req.end_at))
               => Len(table') \in last'.res.rows
    ]_vars

\* C1 witness: a write answered {ok:true} has deleted the list and the overview
\* entry, and a list answered after a write has read a row from the table
C1_Witness_Flushed ==
  /\ IsWrite(last.req) /\ last.res.status = 200 /\ last.res.dropped = 2
  /\ TransactionKeys(cache) = {}

\* C2: a request to a /transaction/* route whose X-API-KEY is missing or wrong
\* is answered 401 and changes neither the table nor the cache.
C2_UnauthorizedChangesNothing ==
  [][ (Handled /\ (IsWrite(last'.req) \/ IsRead(last'.req)) /\ last'.req.key # ApiKey)
      => /\ last'.res.status = 401
         /\ table' = table
         /\ cache' = cache
    ]_vars

\* C2 witness: a write with a wrong key was answered 401 while the table holds
\* a row and the cache an entry
C2_Witness_Rejected ==
  /\ last.res.status = 401 /\ IsWrite(last.req) /\ last.req.key = "guess"
  /\ table # <<>> /\ TransactionKeys(cache) # {}

\* C3: once a soft-delete of a row was answered {ok:true}, no list or overview
\* answer is computed from that row (not in the list, not in the sums and
\* counts), the row stays in the table, and no step removes a row.
C3_SoftDeleteHides ==
  /\ [](/\ acked \subseteq DOMAIN table
        /\ \A id \in acked : table[id].id = id /\ table[id].deletedAt # Null
        /\ (IsRead(last.req) /\ last.res.status = 200)
           => /\ last.res.rows \cap acked = {}
              /\ last.req.op = "list"
                 => {last.res.data[i].id : i \in DOMAIN last.res.data} = last.res.rows
              /\ last.req.op = "overview"
                 => \A ty \in {table[i].type : i \in DOMAIN table} :
                      Cardinality({ id \in last.res.rows : table[id].type = ty })
                        = SumAmount([i \in DOMAIN last.res.data |->
                            [amount |-> IF last.res.data[i].type = ty
                                        THEN last.res.data[i].count ELSE 0]]))
  /\ [][ /\ Len(table') >= Len(table)
         /\ \A i \in DOMAIN table : table'[i].id = table[i].id ]_vars

\* C3 witness: row 1 lies in the window of the query, its soft-delete was
\* answered {ok:true}, and a list read the table without it
C3_Witness_Hidden ==
  /\ 1 \in acked
  /\ UtcStartAt("2024-01-02") <= table[1].createdAt
  /\ last.req.op = "list" /\ last.res.status = 200 /\ last.res.dbRead
  /\ last.res.data = <<>>

C6_AddThenListShowsRecord ==
  [][ (Handled /\ last.req.op = "add" /\ last.res.status = 200
         /\ last'.req.op = "list" /\ last'.res.status = 200
         /\ DayIndex(last'.req.start_at) <= LocalDay(last.at)
         /\ LocalDay(last.at) <= DayIndex(last'.req.end_at))
      => \E i \in DOMAIN last'.res.data :
           /\ last'.res.data[i].id = Len(table)
           /\ last'.res.data[i].amount = last.req.amount.n
           /\ last'.res.data[i].title = last.req.title.s
           /\ last'.res.data[i].type = last.req.type.n
    ]_vars

\* C7 (the claim as stated): a list that misses the cache writes its entry only
\* when the result is not empty, and leaves the cache as it is otherwise.
C7_MissCachesOnlyNonEmpty ==
  [][ (Handled /\ last'.req.op = "list" /\ last'.res.status = 200 /\ ~last'.res.hit)
      => IF last'.res.data # <<>>
         THEN CacheKey("list", last'.req.start_at, last'.req.end_at) \in DOMAIN cache'
         ELSE cache' = cache
    ]_vars

\* C7 (amended): a list that misses the cache always writes the entry of its
\* key, holding the returned list (also the empty one) with a one-hour expiry,
\* and leaves the other keys as they are.
C7_MissAlwaysCaches ==
  [][ (Handled /\ last'.req.op = "list" /\ last'.res.status = 200 /\ ~last'.res.hit)
      => LET key == CacheKey("list", last'.req.start_at, last'.req.end_at)
         IN /\ key \notin DOMAIN cache
            /\ DOMAIN cache' = DOMAIN cache \cup {key}
            /\ cache'[key].val = last'.res.data
            /\ cache'[key].exp = clock + 3600
            /\ \A k \in DOMAIN cache : cache'[k] = cache[k]
    ]_vars

\* C7 witness: a list has missed the cache, returned the empty list and the
\* cache holds the empty list under its key
C7_Witness_EmptyCached ==
  /\ last.req.op = "list" /\ last.res.status = 200 /\ ~last.res.hit
  /\ last.res.data = <<>>
  /\ CacheKey("list", last.req.start_at, last.req.end_at) \in DOMAIN cache
  /\ cache[CacheKey("list", last.req.start_at, last.req.end_at)].val = <<>>

\* C8: an add in which amount, title, type, kind or currency fails validation
\* is answered 400, inserts no row and deletes no cache key.
C8_InvalidAddWritesNothing ==
  [][ (Handled /\ last'.req.op = "add" /\ last'.req.key = ApiKey
         /\ (\/ ~(last'.req.amount.t = "number" /\ last'.req.amount.n >= 0)
             \/ last'.req.title.t # "string"
             \/ ~(last'.req.type.t = "number" /\ last'.req.type.n >= 0)
             \/ ~(last'.req.kind.t = "number" /\ last'.req.kind.n >= 0)
             \/ ~(last'.req.currency.t = "number" /\ last'.req.currency.n >= 0)))
      => /\ last'.res.status = 400
         /\ table' = table
         /\ cache' = cache
    ]_vars

\* C8 witness: an add with a currency of -1 was answered 400 while the cache
\* holds an entry
C8_Witness_Rejected ==
  /\ last.req.op = "add" /\ last.req.key = ApiKey /\ last.req.currency = JNum(-1)
  /\ last.res.status = 400
  /\ TransactionKeys(cache) # {}

\* C9 (the claim as stated): under any interleaving of the handlers' steps, a
\* list or overview that starts after a write was answered {ok:true} never
\* returns a cached payload that was computed from the table before that write.
C9_NoStalePayloadAfterWrite ==
  \A p \in Procs :
    (procs[p].pc = "idle" /\ IsRead(procs[p].req) /\ procs[p].hit)
      => procs[p].ver >= procs[p].seen

\* C10 (the claim as stated): an add or update answered 400 leaves the table
\* as it was.
C10_ErrorLeavesTableUnchanged ==
  [][ (Handled /\ IsWrite(last'.req) /\ last'.res.status = 400) => table' = table ]_vars

====
